---------------------------- MODULE Spec2Model ----------------------------
(***************************************************************************)
(* Auto-Explainer for Developers API (src/main.py, src/schemas.py).        *)
(*                                                                         *)
(* A text (Python str) is a sequence of pieces; the string it denotes is   *)
(* the concatenation of the pieces.  Text that the code scans character by *)
(* character (fetched pages, file names) is written one character per      *)
(* piece; template literals are one piece each.  Python's + and f-string   *)
(* interpolation are \o.  The Polish template literals are written without *)
(* diacritics (TLA+ strings are ASCII).                                    *)
(*                                                                         *)
(* A dict whose iteration order the code depends on (outputs, sections) is *)
(* a sequence of <<key, value>> pairs with distinct keys, in insertion     *)
(* order.  An Optional value is <<>> (None) or <<v>>.                      *)
(***************************************************************************)
EXTENDS Naturals, Sequences, FiniteSets, Bags, TLC

VARIABLES
    store,      \* db["project"]: ObjectId -> stored document
    files,      \* paths written under uploads/
    now,        \* datetime.utcnow()
    resp,       \* the last request handled and the response it got
    inflight,   \* regenerate requests between their find_one and update_one
    lastUpdate, \* the request whose update_one was applied last (history)
    gen         \* a call of generate_content: its arguments and result

vars == <<store, files, now, resp, inflight, lastUpdate, gen>>

-----------------------------------------------------------------------------
(* Bounds of the model *)

MaxProjects == 1
MaxClock == 1
MaxInflight == 2

-----------------------------------------------------------------------------
(* Python str / list / dict helpers *)

Min(a, b) == IF a < b THEN a ELSE b

\* s[a:b] with 1-based inclusive-exclusive bounds clipped to the string
Slice(s, from, len) == SubSeq(s, from, Min(from + len - 1, Len(s)))

UpperChars == <<"A","B","C","D","E","F","G","H","I","J","K","L","M",
                "N","O","P","Q","R","S","T","U","V","W","X","Y","Z">>
LowerChars == <<"a","b","c","d","e","f","g","h","i","j","k","l","m",
                "n","o","p","q","r","s","t","u","v","w","x","y","z">>

\* str.lower() on one character
LowerChar(c) ==
    IF \E i \in DOMAIN UpperChars : UpperChars[i] = c
    THEN LowerChars[CHOOSE i \in DOMAIN UpperChars : UpperChars[i] = c]
    ELSE c

\* str.lower()
Lower(s) == [i \in DOMAIN s |-> LowerChar(s[i])]

\* key occurs in s at position i
OccursAt(s, key, i) == i + Len(key) - 1 <= Len(s) /\ SubSeq(s, i, i + Len(key) - 1) = key

\* `key in s`
Contains(s, key) == \E i \in 1..Len(s) : OccursAt(s, key, i)

\* s.find(key), 1-based, for a key that occurs
Find(s, key) == CHOOSE i \in 1..Len(s) : OccursAt(s, key, i) /\ \A j \in 1..(i - 1) : ~OccursAt(s, key, j)

\* s.split("\n")[0]
FirstLine(s) ==
    IF \E i \in DOMAIN s : s[i] = "\n"
    THEN SubSeq(s, 1, (CHOOSE i \in DOMAIN s : s[i] = "\n" /\ \A j \in 1..(i - 1) : s[j] # "\n") - 1)
    ELSE s

RECURSIVE Join(_, _)
\* sep.join(list)
Join(list, sep) ==
    IF list = <<>> THEN <<>>
    ELSE IF Len(list) = 1 THEN list[1]
    ELSE list[1] \o sep \o Join(Tail(list), sep)

\* lang.upper() on the language codes the model uses
UpperCode(lang) ==
    CASE lang = "en" -> "EN"
      [] lang = "pl" -> "PL"
      [] lang = "fr" -> "FR"
      [] lang = "de" -> "DE"
      [] OTHER -> lang

DictKeys(d) == {d[i][1] : i \in DOMAIN d}
DictGet(d, k) == d[CHOOSE i \in DOMAIN d : d[i][1] = k][2]
\* d[k] = v: an existing key keeps its position
DictSet(d, k, v) ==
    IF k \in DictKeys(d)
    THEN [i \in DOMAIN d |-> IF d[i][1] = k THEN <<k, v>> ELSE d[i]]
    ELSE Append(d, <<k, v>>)
\* the keys of a dict are distinct
IsDict(d) == \A i, j \in DOMAIN d : d[i][1] = d[j][1] => i = j

\* an `x or y` on strings: the empty string is falsy
OrElse(x, y) == IF x = <<>> THEN y ELSE x

\* dict.get(k, default) on a record
GetOr(d, k, default) == IF k \in DOMAIN d THEN d[k] ELSE default

None == <<>>
Some(v) == <<v>>

-----------------------------------------------------------------------------
(* Program constants *)

SECTIONS == <<"instagram_post", "facebook_post", "reels_script", "selling_points",
              "whatsapp_short", "qa", "sales_call_script">>

LANGS == <<"en", "pl">>

UPLOAD_DIR == "uploads"

SnippetLen == 160
FetchLimit == 5000

K_location == <<"l","o","c","a","t","i","o","n">>
K_handover == <<"h","a","n","d","o","v","e","r">>
K_developer == <<"d","e","v","e","l","o","p","e","r">>
K_project == <<"p","r","o","j","e","c","t">>
K_price == <<"p","r","i","c","e">>
K_from == <<"f","r","o","m">>
K_sqft == <<"s","q","f","t">>
K_sqm == <<"s","q","m">>
K_bed == <<"b","e","d">>
K_payment == <<"p","a","y","m","e","n","t">>
K_installment == <<"i","n","s","t","a","l","l","m","e","n","t">>
K_amenit == <<"a","m","e","n","i","t">>
K_pool == <<"p","o","o","l">>
K_gym == <<"g","y","m">>

-----------------------------------------------------------------------------
(* simple_extract *)

\* the loop body of `for key in [...]`: the first line of the 160 characters at key
Snippet(text, key) ==
    IF Contains(Lower(text), key)
    THEN FirstLine(Slice(text, Find(Lower(text), key), SnippetLen))
    ELSE <<>>

simple_extract(text) ==
    LET lower == Lower(text) IN
    [ location |-> Snippet(text, K_location),
      prices |-> IF Contains(lower, K_price) \/ Contains(lower, K_from)
                 THEN <<"From competitive entry pricing; exact figures detected when using AI mode.">>
                 ELSE <<>>,
      sizes |-> IF Contains(lower, K_sqft) \/ Contains(lower, K_sqm) \/ Contains(lower, K_bed)
                THEN <<"Studios to 4BR; sizes auto-detected in AI mode.">>
                ELSE <<>>,
      payment_plan |-> IF Contains(lower, K_payment) \/ Contains(lower, K_installment)
                       THEN <<"Flexible installments available.">>
                       ELSE <<>>,
      amenities |-> IF Contains(lower, K_amenit) \/ Contains(lower, K_pool) \/ Contains(lower, K_gym)
                    THEN << <<"Pool">>, <<"Gym">>, <<"Parking">> >>
                    ELSE <<>>,
      usp |-> << <<"Prime location">>, <<"Strong ROI potential">> >>,
      handover |-> Snippet(text, K_handover),
      developer |-> Snippet(text, K_developer),
      project |-> Snippet(text, K_project) ]

-----------------------------------------------------------------------------
(* generate_content / build_outputs *)

\* def t(en, pl): every language other than "pl" gets the English text
t(lang, en, pl) == IF lang = "pl" THEN pl ELSE en

\* apply_tone without its storytelling branch
MutApplyToneNoStory(tone, lang, text) ==
    IF tone = "aggressive" THEN t(lang, <<"ACT NOW: ">>, <<"DZIALAJ TERAZ: ">>) \o text
    ELSE IF tone = "simple" THEN t(lang, <<"Plain: ">>, <<"Prosto: ">>) \o text
    ELSE t(lang, <<"Premium: ">>, <<"Premium: ">>) \o text

\* def apply_tone(text)
apply_tone(tone, lang, text) ==
    IF tone = "aggressive" THEN t(lang, <<"ACT NOW: ">>, <<"DZIALAJ TERAZ: ">>) \o text
    ELSE IF tone = "simple" THEN t(lang, <<"Plain: ">>, <<"Prosto: ">>) \o text
    ELSE IF tone = "storytelling" THEN t(lang, <<"Imagine this: ">>, <<"Wyobraz sobie: ">>) \o text
    ELSE t(lang, <<"Premium: ">>, <<"Premium: ">>) \o text

qa_items(lang) ==
    << t(lang, <<"What is the starting price?">>, <<"Jaka jest cena startowa?">>),
       t(lang, <<"What sizes are available?">>, <<"Jakie metraze sa dostepne?">>),
       t(lang, <<"What is the payment plan?">>, <<"Jaki jest plan platnosci?">>),
       t(lang, <<"Where is it located?">>, <<"Gdzie znajduje sie inwestycja?">>),
       t(lang, <<"When is handover?">>, <<"Kiedy odbiory?">>),
       t(lang, <<"Who is the developer?">>, <<"Kto jest deweloperem?">>),
       t(lang, <<"What amenities are included?">>, <<"Jakie udogodnienia?">>),
       t(lang, <<"Expected ROI?">>, <<"Oczekiwany zwrot?">>),
       t(lang, <<"Is financing available?">>, <<"Czy dostepne jest finansowanie?">>),
       t(lang, <<"How to reserve?">>, <<"Jak zarezerwowac?">>) >>

generate_content(extracted, tone, lang) ==
    LET name == OrElse(GetOr(extracted, "project", <<>>), <<"New Development">>)
        location == GetOr(extracted, "location", <<>>)
        prices == GetOr(extracted, "prices", <<>>)
        sizes == GetOr(extracted, "sizes", <<>>)
        payment == GetOr(extracted, "payment_plan", <<>>)
        amenities == Join(GetOr(extracted, "amenities", <<>>), <<", ">>)
        usp == Join(GetOr(extracted, "usp", <<>>), <<", ">>)
        handover == GetOr(extracted, "handover", <<>>)
        developer == GetOr(extracted, "developer", <<>>)
        instagram == apply_tone(tone, lang, t(lang,
            name \o <<" in ">> \o location \o <<". ">> \o prices \o <<" ">> \o sizes \o <<" ">>
                 \o payment \o <<" Amenities: ">> \o amenities \o <<". Handover: ">> \o handover
                 \o <<". By ">> \o developer \o <<".">>,
            name \o <<" w ">> \o location \o <<". ">> \o prices \o <<" ">> \o sizes \o <<" ">>
                 \o payment \o <<" Udogodnienia: ">> \o amenities \o <<". Handover: ">> \o handover
                 \o <<". Deweloper: ">> \o developer \o <<".">>))
        facebook == apply_tone(tone, lang, t(lang,
            <<"Discover ">> \o name \o <<". Key points: ">> \o usp \o <<". Prices: ">> \o prices
                 \o <<". Sizes: ">> \o sizes \o <<". Payment: ">> \o payment \o <<". Location: ">>
                 \o location \o <<".">>,
            <<"Poznaj ">> \o name \o <<". Kluczowe atuty: ">> \o usp \o <<". Ceny: ">> \o prices
                 \o <<". Metraze: ">> \o sizes \o <<". Platnosc: ">> \o payment
                 \o <<". Lokalizacja: ">> \o location \o <<".">>))
        reels == apply_tone(tone, lang, t(lang,
            <<"Hook: Own ">> \o name \o <<" in ">> \o location \o <<".\n- ">> \o usp \o <<"\n- ">>
                 \o prices \o <<"\n- ">> \o sizes \o <<"\n- ">> \o payment
                 \o <<"\nCTA: DM for details.">>,
            <<"Hook: ">> \o name \o <<" w ">> \o location \o <<".\n- ">> \o usp \o <<"\n- ">>
                 \o prices \o <<"\n- ">> \o sizes \o <<"\n- ">> \o payment
                 \o <<"\nCTA: Napisz po szczegoly.">>))
        selling_points == apply_tone(tone, lang, t(lang,
            <<"Top 10: ">> \o usp \o <<", Amenities: ">> \o amenities \o <<", Handover: ">>
                 \o handover \o <<", Developer: ">> \o developer,
            <<"Top 10: ">> \o usp \o <<", Udogodnienia: ">> \o amenities \o <<", Handover: ">>
                 \o handover \o <<", Deweloper: ">> \o developer))
        whatsapp == apply_tone(tone, lang, t(lang,
            <<"Short: ">> \o name \o <<" in ">> \o location \o <<". ">> \o prices \o <<" ">> \o payment,
            <<"Krotko: ">> \o name \o <<" w ">> \o location \o <<". ">> \o prices \o <<" ">> \o payment))
        qa == Join([i \in DOMAIN qa_items(lang) |-> <<"Q: ">> \o qa_items(lang)[i] \o <<"\nA: ">>],
                   <<"\n">>)
        call_script == apply_tone(tone, lang, t(lang,
            <<"Intro: calling about ">> \o name \o <<". Confirm interest, share ">> \o prices
                 \o <<" & ">> \o payment \o <<", schedule viewing.">>,
            <<"Intro: dzwonie w sprawie ">> \o name \o <<". Potwierdz zainteresowanie, podaj ">>
                 \o prices \o <<" i ">> \o payment \o <<", umow prezentacje.">>))
    IN << <<"instagram_post", instagram>>,
          <<"facebook_post", facebook>>,
          <<"reels_script", reels>>,
          <<"selling_points", selling_points>>,
          <<"whatsapp_short", whatsapp>>,
          <<"qa", qa>>,
          <<"sales_call_script", call_script>> >>

RECURSIVE build_from(_, _, _, _)
\* the loop of build_outputs: outputs[lang] = generate_content(...), in the order given
build_from(outputs, extracted, tone, languages) ==
    IF languages = <<>> THEN outputs
    ELSE build_from(DictSet(outputs, Head(languages), generate_content(extracted, tone, Head(languages))),
                    extracted, tone, Tail(languages))

\* build_outputs collecting one entry per requested item, duplicates included
MutBuildOutputsList(extracted, tone, languages) ==
    [i \in DOMAIN languages |-> <<languages[i], generate_content(extracted, tone, languages[i])>>]

build_outputs(extracted, tone, languages) == build_from(<<>>, extracted, tone, languages)

-----------------------------------------------------------------------------
(* Request inputs *)

\* the URLs requested, and what requests.get(url).text can return for them
Urls == { <<"http://dev.example/launch">> }

PageMarina ==
    <<"M","a","r","i","n","a","\n",
      "L","o","c","a","t","i","o","n"," ","D","o","w","n","t","o","w","n",","," ",
      "p","o","o","l",","," ","f","r","o","m"," ","9","0","k">>

Pages == {PageMarina}

\* requests.get: raises (connection error, timeout) or returns a page
FetchOutcomes == {[ok |-> FALSE, text |-> <<>>]} \cup {[ok |-> TRUE, text |-> p] : p \in Pages}

\* JSON bodies of POST /api/process/url; tone and languages are optional
UrlBodies ==
    { [url |-> u] : u \in Urls } \cup
    { [url |-> u, tone |-> "aggressive", languages |-> <<"fr", "en", "fr">>] : u \in Urls }

FileBrochure == <<"d","o","c","s","/","P","r","o","j","e","c","t"," ","V","i","s","t","a",".","P","D","F">>
FileNotes == <<"n","o","t","e","s",".","t","x","t">>
FileNoExt == <<".","p","d","f">>

Filenames == {FileBrochure, FileNotes, FileNoExt}

\* multipart forms of POST /api/process/upload; tone is optional
UploadForms ==
    { [filename |-> FileBrochure],
      [filename |-> FileBrochure, tone |-> "storytelling"],
      [filename |-> FileNotes],
      [filename |-> FileNoExt, tone |-> "storytelling"] }

\* JSON bodies of POST .../regenerate; languages is optional
RegenerateBodies ==
    { [tone |-> "simple"],
      [tone |-> "luxury", languages |-> <<"pl", "de", "pl">>] }

\* JSON bodies of POST .../update_outputs
OutputsBodies ==
    { [outputs |-> << <<"en", << <<"headline", <<"edited by hand">> >> >> >> >>] }

ExportFormats ==
    { <<"j","s","o","n">>, <<"t","x","t">>, <<"P","D","F">>, <<"d","o","c","x">>, <<"c","s","v">> }

DefaultLimit == 50
Limits == {1, DefaultLimit}

\* str(ObjectId): the 24 hexadecimal digits of the n-th id the store assigns
StrOfObjectId(n) == <<"oid", ToString(n)>>

ObjectIds == 1..(MaxProjects + 1)

\* the {project_id} path parameter: the id strings, and one that is no ObjectId
ProjectIdStrings == { StrOfObjectId(n) : n \in ObjectIds } \cup { <<"a","b","c">> }

\* the times a handler can read, given the time the previous one read
Times == { tm \in 0..MaxClock : now <= tm /\ tm <= now + 1 }

-----------------------------------------------------------------------------
(* schemas.py *)

ProcessURLRequest(body) ==
    [ url |-> body.url,
      tone |-> GetOr(body, "tone", "premium"),
      languages |-> GetOr(body, "languages", <<"en", "pl">>) ]

RegenerateRequest(body) ==
    [ tone |-> body.tone,
      languages |-> GetOr(body, "languages", <<"en", "pl">>) ]

\* Project(...).model_dump(): the fields of the model, unset Optional ones None
Project(title, source_type, source_url, file_path, tone, extracted, outputs) ==
    [ title |-> title,
      source_type |-> source_type,
      source_url |-> source_url,
      file_path |-> file_path,
      tone |-> tone,
      extracted |-> extracted,
      outputs |-> outputs ]

-----------------------------------------------------------------------------
(* The store: bson and pymongo as main.py uses them *)

\* a record with field k set to v
WithField(r, k, v) == [f \in DOMAIN r \cup {k} |-> IF f = k THEN v ELSE r[f]]
WithoutField(r, k) == [f \in DOMAIN r \ {k} |-> r[f]]

\* bson.ObjectId(project_id) raises InvalidId unless the string is an id's 24 digits
IsObjectIdString(project_id) == \E n \in ObjectIds : StrOfObjectId(n) = project_id
ObjectId(project_id) == CHOOSE n \in ObjectIds : StrOfObjectId(n) = project_id

DateTime(tm) == [type |-> "datetime", value |-> tm]
BsonObjectId(n) == [type |-> "ObjectId", value |-> n]

\* db["project"].find_one({"_id": oid}): Some(document with its _id), or None
find_one(oid) ==
    IF oid \in DOMAIN store THEN Some(WithField(store[oid], "_id", BsonObjectId(oid))) ELSE None

matched_count(oid) == IF oid \in DOMAIN store THEN 1 ELSE 0

\* db["project"].update_one({"_id": oid}, {"$set": set}): the collection afterwards
update_one(oid, set) ==
    IF oid \in DOMAIN store
    THEN [store EXCEPT ![oid] = [f \in DOMAIN @ \cup DOMAIN set |-> IF f \in DOMAIN set THEN set[f] ELSE @[f]]]
    ELSE store

\* the id insert_one gives the next document
NextObjectId == Cardinality(DOMAIN store) + 1

\* create_document("project", project): the collection after insert_one
create_document(project) ==
    [oid \in DOMAIN store \cup {NextObjectId} |-> IF oid = NextObjectId THEN project ELSE store[oid]]

\* doc["id"] = str(doc.pop("_id"))
WithStringId(doc) == WithField(WithoutField(doc, "_id"), "id", StrOfObjectId(doc._id.value))

\* get_documents("project", {}, limit): the first `limit` documents, each with its _id
get_documents(limit) ==
    [i \in 1..Min(limit, Cardinality(DOMAIN store)) |-> WithField(store[i], "_id", BsonObjectId(i))]

\* json.dumps of a stored document: a TypeError on an ObjectId or a datetime value
JsonSerializable(doc) == "_id" \notin DOMAIN doc /\ "updated_at" \notin DOMAIN doc

-----------------------------------------------------------------------------
(* os.path *)

\* index of the last occurrence of character c in p, 0 when there is none
LastIndex(p, c) ==
    IF \E i \in DOMAIN p : p[i] = c
    THEN CHOOSE i \in DOMAIN p : p[i] = c /\ \A j \in (i + 1)..Len(p) : p[j] # c
    ELSE 0

\* os.path.splitext(p)[1]: from the last dot of the last component, leading dots aside
SplitextExt(p) ==
    LET sepIndex == LastIndex(p, "/")
        dotIndex == LastIndex(p, ".")
    IN IF dotIndex > sepIndex /\ \E k \in (sepIndex + 1)..(dotIndex - 1) : p[k] # "."
       THEN SubSeq(p, dotIndex, Len(p))
       ELSE <<>>

\* os.path.basename(p)
Basename(p) == SubSeq(p, LastIndex(p, "/") + 1, Len(p))

AllowedExtensions ==
    { <<".","p","d","f">>, <<".","p","n","g">>, <<".","j","p","g">>, <<".","j","p","e","g">> }

-----------------------------------------------------------------------------
(* The request handlers of main.py.  Each takes the request, the outcomes  *)
(* of the calls it makes outside the program, and the time tm it runs at.  *)

Response(op, req, status, body) == [op |-> op, req |-> req, status |-> status, body |-> body]

\* raise HTTPException(status_code, detail)
HTTPException(op, req, status_code, detail) == Response(op, req, status_code, [detail |-> detail])

\* an exception no handler catches
ServerError(op, req) == Response(op, req, 500, [detail |-> "Internal Server Error"])

\* process_url from the fetched text on: extract, generate, build the Project
UrlProject(payload, content) ==
    LET extracted == simple_extract(content)
        outputs == build_outputs(extracted, payload.tone, payload.languages)
    IN Project(OrElse(GetOr(extracted, "project", <<>>), payload.url), "url",
               Some(payload.url), None, payload.tone, extracted, outputs)

\* @app.post("/api/process/url")
process_url(body, fetched, insertOk, tm) ==
    LET payload == ProcessURLRequest(body)
        req == [body |-> body, fetch_ok |-> fetched.ok]
        content == Slice(fetched.text, 1, FetchLimit)
        project == UrlProject(payload, content)
    IN /\ now' = tm
       /\ files' = files
       /\ IF ~fetched.ok
          THEN /\ resp' = HTTPException("process_url", req, 400, "Failed to fetch")
               /\ store' = store
          ELSE IF ~insertOk
          THEN /\ resp' = ServerError("process_url", req)
               /\ store' = store
          ELSE /\ NextObjectId <= MaxProjects
               /\ store' = create_document(project)
               /\ resp' = Response("process_url", req, 200,
                                   [id |-> StrOfObjectId(NextObjectId), project |-> project])

\* os.path.join(UPLOAD_DIR, f"{uuid.uuid4().hex}{ext}"): a name no earlier file has
SavedPath(ext) == <<UPLOAD_DIR, "/", ToString(Cardinality(files) + 1)>> \o ext

\* process_upload from the saved file on: extract from the file name, generate, build
UploadProject(filename, tone, saved) ==
    LET text_hint == filename
        extracted == simple_extract(text_hint)
        outputs == build_outputs(extracted, tone, LANGS)
    IN Project(OrElse(GetOr(extracted, "project", <<>>), Basename(filename)), "upload",
               None, Some(saved), tone, extracted, outputs)

\* process_upload saving the file before it looks at the extension
MutProcessUploadSaveFirst(form, insertOk, tm) ==
    LET filename == form.filename
        tone == GetOr(form, "tone", "premium")
        req == [form |-> form]
        ext == Lower(SplitextExt(filename))
        saved == SavedPath(ext)
        project == UploadProject(filename, tone, saved)
    IN /\ now' = tm
       /\ Cardinality(files) < MaxProjects
       /\ files' = files \cup {saved}
       /\ IF ext \notin AllowedExtensions
          THEN /\ resp' = HTTPException("process_upload", req, 400, "Unsupported file type")
               /\ store' = store
          ELSE IF ~insertOk
          THEN /\ resp' = ServerError("process_upload", req)
               /\ store' = store
          ELSE /\ NextObjectId <= MaxProjects
               /\ store' = create_document(project)
               /\ resp' = Response("process_upload", req, 200,
                                   [id |-> StrOfObjectId(NextObjectId), project |-> project])

\* @app.post("/api/process/upload")
process_upload(form, insertOk, tm) ==
    LET filename == form.filename
        tone == GetOr(form, "tone", "premium")
        req == [form |-> form]
        ext == Lower(SplitextExt(filename))
        saved == SavedPath(ext)
        project == UploadProject(filename, tone, saved)
    IN /\ now' = tm
       /\ IF ext \notin AllowedExtensions
          THEN /\ resp' = HTTPException("process_upload", req, 400, "Unsupported file type")
               /\ store' = store
               /\ files' = files
          ELSE /\ Cardinality(files) < MaxProjects
               /\ files' = files \cup {saved}
               /\ IF ~insertOk
                  THEN /\ resp' = ServerError("process_upload", req)
                       /\ store' = store
                  ELSE /\ NextObjectId <= MaxProjects
                       /\ store' = create_document(project)
                       /\ resp' = Response("process_upload", req, 200,
                                           [id |-> StrOfObjectId(NextObjectId), project |-> project])

\* @app.get("/api/projects")
list_projects(limit, tm) ==
    LET docs == get_documents(limit)
        req == [limit |-> limit]
    IN /\ now' = tm
       /\ resp' = Response("list_projects", req, 200,
                           [projects |-> [i \in DOMAIN docs |-> WithStringId(docs[i])]])
       /\ UNCHANGED <<store, files>>

\* @app.get("/api/projects/{project_id}")
get_project(project_id, tm) ==
    LET req == [project_id |-> project_id] IN
    /\ now' = tm
    /\ UNCHANGED <<store, files>>
    /\ IF ~IsObjectIdString(project_id)
       THEN resp' = ServerError("get_project", req)
       ELSE LET doc == find_one(ObjectId(project_id)) IN
            IF doc = None
            THEN resp' = HTTPException("get_project", req, 404, "Not found")
            ELSE resp' = Response("get_project", req, 200, [project |-> WithStringId(doc[1])])

\* update_outputs setting outputs alone
MutUpdateOutputsNoStamp(project_id, payload, tm) ==
    LET req == [project_id |-> project_id, body |-> payload] IN
    /\ now' = tm
    /\ files' = files
    /\ IF ~IsObjectIdString(project_id)
       THEN /\ resp' = ServerError("update_outputs", req)
            /\ store' = store
       ELSE LET oid == ObjectId(project_id) IN
            /\ store' = update_one(oid, [outputs |-> payload.outputs])
            /\ IF matched_count(oid) = 0
               THEN resp' = HTTPException("update_outputs", req, 404, "Not found")
               ELSE resp' = Response("update_outputs", req, 200, [status |-> "ok"])

\* @app.post("/api/projects/{project_id}/update_outputs")
update_outputs(project_id, payload, tm) ==
    LET req == [project_id |-> project_id, body |-> payload] IN
    /\ now' = tm
    /\ files' = files
    /\ IF ~IsObjectIdString(project_id)
       THEN /\ resp' = ServerError("update_outputs", req)
            /\ store' = store
       ELSE LET oid == ObjectId(project_id) IN
            /\ store' = update_one(oid, [outputs |-> payload.outputs, updated_at |-> DateTime(tm)])
            /\ IF matched_count(oid) = 0
               THEN resp' = HTTPException("update_outputs", req, 404, "Not found")
               ELSE resp' = Response("update_outputs", req, 200, [status |-> "ok"])

\* regenerate re-running the extraction
MutRegenerateSetExtract(extracted, payload, tm) ==
    [ tone |-> payload.tone,
      extracted |-> simple_extract(<<>>),
      outputs |-> build_outputs(simple_extract(<<>>), payload.tone, payload.languages),
      updated_at |-> DateTime(tm) ]

\* the $set document of regenerate's update_one, from doc.get("extracted", {})
RegenerateSet(extracted, payload, tm) ==
    [ tone |-> payload.tone,
      outputs |-> build_outputs(extracted, payload.tone, payload.languages),
      updated_at |-> DateTime(tm) ]

\* @app.post("/api/projects/{project_id}/regenerate")
regenerate(project_id, body, tm) ==
    LET payload == RegenerateRequest(body)
        req == [project_id |-> project_id, body |-> body]
    IN /\ now' = tm
       /\ files' = files
       /\ IF ~IsObjectIdString(project_id)
          THEN /\ resp' = ServerError("regenerate", req)
               /\ store' = store
          ELSE LET oid == ObjectId(project_id)
                   doc == find_one(oid)
               IN IF doc = None
                  THEN /\ resp' = HTTPException("regenerate", req, 404, "Not found")
                       /\ store' = store
                  ELSE /\ store' = update_one(oid, RegenerateSet(GetOr(doc[1], "extracted", <<>>), payload, tm))
                       /\ resp' = Response("regenerate", req, 200, [status |-> "ok"])

\* def combined_text()
combined_text(doc) ==
    LET outputs == GetOr(doc, "outputs", <<>>)
        SectionLines(sections) ==
            [j \in DOMAIN sections |-> <<"\n## ", sections[j][1], "\n">> \o sections[j][2]]
        LangLines(k) ==
            << <<"\n=== ", UpperCode(outputs[k][1]), " ===">> >> \o SectionLines(outputs[k][2])
        RECURSIVE Lines(_)
        Lines(k) == IF k > Len(outputs) THEN <<>> ELSE LangLines(k) \o Lines(k + 1)
    IN Join(<< <<"Title: ">> \o GetOr(doc, "title", <<>>) >> \o Lines(1), <<"\n">>)

\* StreamingResponse(io.BytesIO(text_data.encode("utf-8")), media_type, headers)
StreamingResponse(text_data, media_type, filename) ==
    [content |-> text_data, media_type |-> media_type, filename |-> filename]

\* @app.post("/api/projects/{project_id}/export")
export(project_id, format, tm) ==
    LET req == [project_id |-> project_id, format |-> format]
        fmt == Lower(format)
    IN /\ now' = tm
       /\ UNCHANGED <<store, files>>
       /\ IF ~IsObjectIdString(project_id)
          THEN resp' = ServerError("export", req)
          ELSE LET doc == find_one(ObjectId(project_id)) IN
               IF doc = None
               THEN resp' = HTTPException("export", req, 404, "Not found")
               ELSE IF fmt = <<"j","s","o","n">>
               THEN IF JsonSerializable(doc[1])
                    THEN resp' = Response("export", req, 200, [content |-> doc[1], media_type |-> "application/json"])
                    ELSE resp' = ServerError("export", req)
               ELSE IF fmt = <<"t","x","t">>
               THEN resp' = Response("export", req, 200,
                                     StreamingResponse(combined_text(doc[1]), "text/plain", "export.txt"))
               ELSE IF fmt = <<"p","d","f">>
               THEN resp' = Response("export", req, 200,
                                     StreamingResponse(combined_text(doc[1]), "application/pdf", "export.pdf"))
               ELSE IF fmt = <<"d","o","c","x">>
               THEN resp' = Response("export", req, 200,
                                     StreamingResponse(combined_text(doc[1]),
                                         "application/vnd.openxmlformats-officedocument.wordprocessingml.document",
                                         "export.docx"))
               ELSE resp' = HTTPException("export", req, 400, "Unsupported export format")

-----------------------------------------------------------------------------
(* The service handling one request after another *)

NoResponse == Response("none", [none |-> TRUE], 0, [none |-> TRUE])
NoCall == [state |-> "idle"]
NoUpdate == [op |-> "none", raced |-> FALSE]

Init ==
    /\ store = <<>>
    /\ files = {}
    /\ now = 0
    /\ resp = NoResponse
    /\ inflight = EmptyBag
    /\ lastUpdate = NoUpdate
    /\ gen = NoCall

\* the service takes a request when the previous response has been sent
Serving == resp = NoResponse /\ UNCHANGED <<inflight, lastUpdate, gen>>

ProcessUrl ==
    \E body \in UrlBodies, fetched \in FetchOutcomes, insertOk \in BOOLEAN, tm \in Times :
        Serving /\ process_url(body, fetched, insertOk, tm)

ProcessUpload ==
    \E form \in UploadForms, insertOk \in BOOLEAN, tm \in Times :
        Serving /\ process_upload(form, insertOk, tm)

ListProjects == \E limit \in Limits, tm \in Times : Serving /\ list_projects(limit, tm)

GetProject == \E project_id \in ProjectIdStrings, tm \in Times : Serving /\ get_project(project_id, tm)

UpdateOutputs ==
    \E project_id \in ProjectIdStrings, payload \in OutputsBodies, tm \in Times :
        Serving /\ update_outputs(project_id, payload, tm)

Regenerate ==
    \E project_id \in ProjectIdStrings, body \in RegenerateBodies, tm \in Times :
        Serving /\ regenerate(project_id, body, tm)

Export ==
    \E project_id \in ProjectIdStrings, format \in ExportFormats, tm \in Times :
        Serving /\ export(project_id, format, tm)

\* the response goes out to the client
SendResponse ==
    /\ resp # NoResponse
    /\ resp' = NoResponse
    /\ UNCHANGED <<store, files, now, inflight, lastUpdate, gen>>

Next ==
    \/ ProcessUrl
    \/ ProcessUpload
    \/ ListProjects
    \/ GetProject
    \/ UpdateOutputs
    \/ Regenerate
    \/ Export
    \/ SendResponse

Spec == Init /\ [][Next]_vars

-----------------------------------------------------------------------------
(* generate_content called on its own *)

GenTones == {"premium", "aggressive", "simple", "storytelling", "luxury", "Aggressive", ""}
GenLangs == {"en", "pl", "fr"}
\* fact records: extracted from a page, from a file name, from nothing, and the
\* empty dict regenerate passes for a document without `extracted`
GenFacts == { simple_extract(PageMarina), simple_extract(FileBrochure), simple_extract(<<>>), <<>> }

InitGen ==
    /\ store = <<>>
    /\ files = {}
    /\ now = 0
    /\ resp = NoResponse
    /\ inflight = EmptyBag
    /\ lastUpdate = NoUpdate
    /\ gen \in { [state |-> "called", extracted |-> e, tone |-> tn, lang |-> l] :
                 e \in GenFacts, tn \in GenTones, l \in GenLangs }

GenerateContent ==
    /\ gen.state = "called"
    /\ gen' = [state |-> "returned", extracted |-> gen.extracted, tone |-> gen.tone, lang |-> gen.lang,
               result |-> generate_content(gen.extracted, gen.tone, gen.lang)]
    /\ UNCHANGED <<store, files, now, resp, inflight, lastUpdate>>

NextGen == GenerateContent

SpecGen == InitGen /\ [][NextGen]_vars

-----------------------------------------------------------------------------
(* Concurrent regenerate and update_outputs requests on one stored project. *)
(* regenerate is two store operations: find_one, then update_one.           *)

\* the projects a creation request can have stored
CreatedProjects ==
    { UrlProject(ProcessURLRequest(body), Slice(page, 1, FetchLimit)) : body \in UrlBodies, page \in Pages }
    \cup { UploadProject(FileBrochure, "premium", <<UPLOAD_DIR, "/", "1", ".", "p", "d", "f">>) }

InitConc ==
    /\ store \in { <<project>> : project \in CreatedProjects }
    /\ files = IF store[1].source_type = "upload" THEN {store[1].file_path[1]} ELSE {}
    /\ now = 0
    /\ resp = NoResponse
    /\ inflight = EmptyBag
    /\ lastUpdate = NoUpdate
    /\ gen = NoCall

\* regenerate up to and including find_one; the request then holds its payload and
\* doc.get("extracted", {})
regenerate_find(project_id, body, tm) ==
    LET payload == RegenerateRequest(body)
        req == [project_id |-> project_id, body |-> body]
    IN /\ now' = tm
       /\ UNCHANGED <<store, files>>
       /\ IF ~IsObjectIdString(project_id)
          THEN /\ resp' = ServerError("regenerate", req)
               /\ inflight' = inflight
          ELSE LET oid == ObjectId(project_id)
                   doc == find_one(oid)
               IN IF doc = None
                  THEN /\ resp' = HTTPException("regenerate", req, 404, "Not found")
                       /\ inflight' = inflight
                  ELSE /\ BagCardinality(inflight) < MaxInflight
                       /\ resp' = resp
                       /\ inflight' = inflight (+) SetToBag({[ oid |-> oid, req |-> req, payload |-> payload,
                                                               extracted |-> GetOr(doc[1], "extracted", <<>>) ]})

RECURSIVE MergeOutputs(_, _)
MergeOutputs(outputs, new) ==
    IF new = <<>> THEN outputs ELSE MergeOutputs(DictSet(outputs, new[1][1], new[1][2]), Tail(new))

\* regenerate setting "outputs.<lang>" per language instead of outputs as a whole
MutRegenerateUpdateMerge(r, tm) ==
    /\ now' = tm
    /\ files' = files
    /\ store' = update_one(r.oid,
                    [ tone |-> r.payload.tone,
                      outputs |-> MergeOutputs(store[r.oid].outputs,
                                               build_outputs(r.extracted, r.payload.tone, r.payload.languages)),
                      updated_at |-> DateTime(tm) ])
    /\ resp' = Response("regenerate", r.req, 200, [status |-> "ok"])
    /\ inflight' = inflight (-) SetToBag({r})

\* regenerate from build_outputs on: update_one and the response
regenerate_update(r, tm) ==
    /\ now' = tm
    /\ files' = files
    /\ store' = update_one(r.oid, RegenerateSet(r.extracted, r.payload, tm))
    /\ resp' = Response("regenerate", r.req, 200, [status |-> "ok"])
    /\ inflight' = inflight (-) SetToBag({r})

\* the requests all name the stored project
StoredProjectIds == { StrOfObjectId(oid) : oid \in DOMAIN store }

\* lastUpdate.raced: some request so far ran while another was between its two steps
ConcRegenerateFind ==
    \E project_id \in StoredProjectIds, body \in RegenerateBodies, tm \in Times :
        /\ regenerate_find(project_id, body, tm)
        /\ lastUpdate' = [lastUpdate EXCEPT !.raced = @ \/ inflight # EmptyBag]
        /\ gen' = gen

ConcRegenerateUpdate ==
    \E r \in BagToSet(inflight), tm \in Times :
        /\ regenerate_update(r, tm)
        /\ lastUpdate' = [op |-> "regenerate", oid |-> r.oid, payload |-> r.payload,
                          raced |-> lastUpdate.raced]
        /\ gen' = gen

ConcUpdateOutputs ==
    \E project_id \in StoredProjectIds, payload \in OutputsBodies, tm \in Times :
        /\ update_outputs(project_id, payload, tm)
        /\ lastUpdate' = [op |-> "update_outputs", oid |-> ObjectId(project_id), payload |-> payload,
                          raced |-> lastUpdate.raced \/ inflight # EmptyBag]
        /\ inflight' = inflight
        /\ gen' = gen

NextConc ==
    \/ ConcRegenerateFind
    \/ ConcRegenerateUpdate
    \/ ConcUpdateOutputs

SpecConc == InitConc /\ [][NextConc]_vars

-----------------------------------------------------------------------------
(* The claims *)

Range(seq) == {seq[i] : i \in DOMAIN seq}
StartsWith(s, prefix) == Len(s) >= Len(prefix) /\ SubSeq(s, 1, Len(prefix)) = prefix
EndsWith(s, suffix) == Len(s) >= Len(suffix) /\ SubSeq(s, Len(s) - Len(suffix) + 1, Len(s)) = suffix
SupportedLanguages == {"en", "pl"}
SectionSet == {"instagram_post", "facebook_post", "reels_script", "selling_points",
               "whatsapp_short", "qa", "sales_call_script"}
Stored(project_id) == \E oid \in DOMAIN store : StrOfObjectId(oid) = project_id
GenerationOps == {"process_url", "process_upload", "regenerate"}
MutationOps == {"update_outputs", "regenerate"}

\* C1: in every reachable state the keys of every stored project's outputs are a
\* subset of the supported language codes {en, pl}.
C1_OutputsKeysSupported ==
    \A oid \in DOMAIN store : DictKeys(store[oid].outputs) \subseteq SupportedLanguages

\* the project a successful generation pass wrote, and the languages it was asked for
GeneratedOid == IF resp.op = "regenerate" THEN ObjectId(resp.req.project_id) ELSE ObjectId(resp.body.id)
RequestedLanguages ==
    IF resp.op = "regenerate" THEN GetOr(resp.req.body, "languages", <<"en", "pl">>)
    ELSE IF resp.op = "process_url" THEN GetOr(resp.req.body, "languages", <<"en", "pl">>)
    ELSE <<"en", "pl">>

\* C2: immediately after a successful process_url, process_upload or regenerate, the
\* stored project's outputs has exactly one entry per distinct requested language, and
\* every entry's keys are exactly the seven fixed sections.
C2_GenerationPass ==
    (resp.op \in GenerationOps /\ resp.status = 200) =>
        LET outputs == store[GeneratedOid].outputs IN
        /\ IsDict(outputs)
        /\ DictKeys(outputs) = Range(RequestedLanguages)
        /\ \A i \in DOMAIN outputs :
              /\ IsDict(outputs[i][2])
              /\ DictKeys(outputs[i][2]) = SectionSet

\* a regenerate that asked for a language twice has just succeeded
C2_Witness ==
    /\ resp.op = "regenerate"
    /\ resp.status = 200
    /\ Len(RequestedLanguages) > Cardinality(Range(RequestedLanguages))

\* C3: a stored project stays stored under its id, with the extracted facts it has,
\* through every step of the service.
C3_ProjectsPersist ==
    [][\A oid \in DOMAIN store :
          /\ oid \in DOMAIN store'
          /\ store'[oid].extracted = store[oid].extracted]_vars

\* a project with facts taken from its source has been regenerated
C3_Witness ==
    /\ resp.op = "regenerate"
    /\ resp.status = 200
    /\ store[GeneratedOid].extracted.location # <<>>

\* C4: a regenerate or update_outputs request whose id names no stored project gets
\* 404 and leaves the store unchanged.
C4_UnknownIdNotFound ==
    [][(resp'.op \in MutationOps /\ ~Stored(resp'.req.project_id)) =>
          (resp'.status = 404 /\ store' = store)]_vars

\* the file name ends (case aside) in none of the accepted extensions
C5_ExtensionOutside(filename) ==
    \A ext \in { <<".","p","d","f">>, <<".","p","n","g">>, <<".","j","p","g">>, <<".","j","p","e","g">> } :
        ~EndsWith(Lower(filename), ext)

\* C5: a process_url whose fetch fails, and a process_upload whose file extension is
\* outside {.pdf, .png, .jpg, .jpeg}, get 400 and leave the stored projects and the
\* uploads directory as they were.
C5_RejectedIngestion ==
    [][(\/ resp'.op = "process_url" /\ ~resp'.req.fetch_ok
        \/ resp'.op = "process_upload" /\ C5_ExtensionOutside(resp'.req.form.filename)) =>
          (resp'.status = 400 /\ store' = store /\ files' = files)]_vars

\* an upload has just been rejected while a project and a file are stored
C5_Witness ==
    /\ resp.op = "process_upload"
    /\ resp.status = 400
    /\ store # <<>>
    /\ files # {}

\* C6: a creation request either succeeds, and the record exists, or fails with
\* nothing written: no stored record and no file under uploads/.
C6_NoPartialSuccess ==
    [][(resp'.op \in {"process_url", "process_upload"}) =>
          IF resp'.status = 200
          THEN ObjectId(resp'.body.id) \in DOMAIN store' \ DOMAIN store
          ELSE store' = store /\ files' = files]_vars

\* C7: a record has no updated_at when it is created; a successful update_outputs or
\* regenerate sets the record's updated_at to the current time; no other step changes
\* whether a record has updated_at, or its value.
C7_UpdatedAt ==
    [][\A oid \in DOMAIN store' :
          IF resp'.op \in MutationOps /\ resp'.status = 200 /\ resp'.req.project_id = StrOfObjectId(oid)
          THEN "updated_at" \in DOMAIN store'[oid] /\ store'[oid].updated_at = DateTime(now')
          ELSE IF oid \in DOMAIN store
          THEN /\ ("updated_at" \in DOMAIN store'[oid]) = ("updated_at" \in DOMAIN store[oid])
               /\ "updated_at" \in DOMAIN store[oid] => store'[oid].updated_at = store[oid].updated_at
          ELSE "updated_at" \notin DOMAIN store'[oid]]_vars

\* a record stamped earlier has just been edited again, at a later time
C7_Witness ==
    /\ resp.op = "update_outputs"
    /\ resp.status = 200
    /\ now > 0
    /\ store[ObjectId(resp.req.project_id)].updated_at = DateTime(now)

\* C8: export of an existing project returns the stored record for json, and for txt,
\* pdf and docx the same text under the format's own MIME type and file name.
C8_Export ==
    (resp.op = "export" /\ Stored(resp.req.project_id)) =>
        LET doc == find_one(ObjectId(resp.req.project_id))[1]
            fmt == Lower(resp.req.format)
        IN /\ fmt = <<"j","s","o","n">> => (resp.status = 200 /\ resp.body.content = doc)
           /\ fmt \in {<<"t","x","t">>, <<"p","d","f">>, <<"d","o","c","x">>} =>
                 /\ resp.status = 200
                 /\ resp.body.content = combined_text(doc)
                 /\ resp.body.media_type =
                        (IF fmt = <<"t","x","t">> THEN "text/plain"
                         ELSE IF fmt = <<"p","d","f">> THEN "application/pdf"
                         ELSE "application/vnd.openxmlformats-officedocument.wordprocessingml.document")
                 /\ <<resp.body.filename>> \in {<<"export.txt">>, <<"export.pdf">>, <<"export.docx">>}

\* the prefix the claim gives each tone in each supported language
C9_Prefix(tone, lang) ==
    IF tone = "aggressive" THEN (IF lang = "en" THEN <<"ACT NOW: ">> ELSE <<"DZIALAJ TERAZ: ">>)
    ELSE IF tone = "simple" THEN (IF lang = "en" THEN <<"Plain: ">> ELSE <<"Prosto: ">>)
    ELSE IF tone = "storytelling" THEN (IF lang = "en" THEN <<"Imagine this: ">> ELSE <<"Wyobraz sobie: ">>)
    ELSE <<"Premium: ">>

\* C9: for every tone and supported language, each section of generate_content other
\* than qa is a non-empty string starting with the tone's prefix in that language
\* (Premium for premium and for every unrecognized tone), and qa is what it is for
\* every other tone.
C9_TonePrefix ==
    (gen.state = "returned" /\ gen.lang \in SupportedLanguages) =>
        /\ \A sec \in SectionSet \ {"qa"} :
              /\ sec \in DictKeys(gen.result)
              /\ DictGet(gen.result, sec) # <<>>
              /\ "" \notin Range(DictGet(gen.result, sec))
              /\ StartsWith(DictGet(gen.result, sec), C9_Prefix(gen.tone, gen.lang))
        /\ \A tone \in GenTones :
              DictGet(generate_content(gen.extracted, tone, gen.lang), "qa") = DictGet(gen.result, "qa")

\* generate_content has returned for the storytelling tone in Polish
C9_Witness ==
    /\ gen.state = "returned"
    /\ gen.tone = "storytelling"
    /\ gen.lang = "pl"
    /\ gen.extracted # <<>>

\* C10: once every request has completed, the stored outputs are those of the update
\* applied last; if that was a regenerate, the stored tone is its tone and the stored
\* outputs are build_outputs of the stored facts, its tone and its languages.
C10_LastWriteWins ==
    (inflight = EmptyBag /\ lastUpdate.op # "none") =>
        LET doc == store[lastUpdate.oid] IN
        IF lastUpdate.op = "update_outputs"
        THEN doc.outputs = lastUpdate.payload.outputs
        ELSE /\ doc.tone = lastUpdate.payload.tone
             /\ doc.outputs = build_outputs(doc.extracted, lastUpdate.payload.tone, lastUpdate.payload.languages)

\* requests have overlapped, all have completed, and a regenerate wrote last
C10_Witness ==
    /\ inflight = EmptyBag
    /\ lastUpdate.op = "regenerate"
    /\ lastUpdate.raced
    /\ store[lastUpdate.oid].tone = "luxury"

=============================================================================
